---- MODULE Spec2Model ----
(***************************************************************************)
(* A model of UltraMem (src/ultramem.c): command-line validation, cache    *)
(* topology detection, working-set sizing, buffer allocation, the parallel *)
(* benchmark kernels and the statistics reduction over the timed trials.   *)
(*                                                                         *)
(* Conventions.                                                            *)
(*  - A C string is a sequence of one-character strings.                   *)
(*  - size_t is 64 bits wide (LP64).  The cache sizes are carried in       *)
(*    bytes.  The element count of an array is carried in units of 1024    *)
(*    elements (array_size), since array_mb * 1024 * 1024 / 8 is always a  *)
(*    multiple of 1024 and the count for 65536 MB exceeds 2^31; nothing is *)
(*    rounded by this.                                                     *)
(*  - The three buffers of a kernel invocation are arrays of N values;     *)
(*    the values stored by the program are small integers, which doubles   *)
(*    represent exactly.                                                   *)
(***************************************************************************)
EXTENDS Integers, Sequences, FiniteSets, TLC

\* ------------------------------------------------------------------------
\* Bounds of the model
\* ------------------------------------------------------------------------

\* Largest detected L3 size, in MB, that main is run with.
MaxL3MB == 100

\* Number of trials (the source's NTIMES, 20 unless overridden at build time).
NTIMES == 4

\* ------------------------------------------------------------------------
\* Program constants
\* ------------------------------------------------------------------------

MAX_THREADS == 1024

MAX_ARRAY_MB == 65536

MIN_ARRAY_MB == 128

DEFAULT_L3 == 8 * 1024 * 1024

MB == 1024 * 1024

SIZEOF_DOUBLE == 8

NKERNELS == 7

\* A MIN that keeps the larger value.
MIN_larger(x, y) == IF x < y THEN y ELSE x

MIN(x, y) == IF x < y THEN x ELSE y

MAX(x, y) == IF x > y THEN x ELSE y

\* ------------------------------------------------------------------------
\* C strings and the libc conversions main applies to its arguments
\* ------------------------------------------------------------------------

Digits == {"0", "1", "2", "3", "4", "5", "6", "7", "8", "9"}

DigitVal(ch) ==
    CASE ch = "0" -> 0 [] ch = "1" -> 1 [] ch = "2" -> 2 [] ch = "3" -> 3
      [] ch = "4" -> 4 [] ch = "5" -> 5 [] ch = "6" -> 6 [] ch = "7" -> 7
      [] ch = "8" -> 8 [] ch = "9" -> 9

RECURSIVE strtol_digits(_, _, _)
\* The decimal value of the longest run of digits of s that starts at i.
strtol_digits(s, i, acc) ==
    IF i > Len(s) \/ s[i] \notin Digits
    THEN acc
    ELSE strtol_digits(s, i + 1, acc * 10 + DigitVal(s[i]))

RECURSIVE skip_space(_, _)
skip_space(s, i) ==
    IF i <= Len(s) /\ s[i] = " " THEN skip_space(s, i + 1) ELSE i

\* atoi / atol: optional white space, optional sign, then the leading digits;
\* whatever follows the digits is ignored and no digits at all gives 0.
atoi(s) ==
    LET i == skip_space(s, 1) IN
    IF i > Len(s) THEN 0
    ELSE IF s[i] = "-" THEN 0 - strtol_digits(s, i + 1, 0)
    ELSE IF s[i] = "+" THEN strtol_digits(s, i + 1, 0)
    ELSE strtol_digits(s, i, 0)

\* A conversion that takes the whole argument or nothing.
atol_whole(s) ==
    IF \E i \in DOMAIN s : s[i] \notin Digits THEN 0 ELSE atoi(s)

atol(s) == atoi(s)

\* ------------------------------------------------------------------------
\* The command lines main is run with
\* ------------------------------------------------------------------------

ThreadArgs ==
    { <<"0">>, <<"1">>, <<"4">>, <<"1", "0", "2", "4">>, <<"1", "0", "2", "5">>,
      <<"-", "1">>, <<"x">> }

SizeArgs ==
    { <<"0">>, <<"1">>, <<"6", "4">>, <<"6", "5", "5", "3", "6">>,
      <<"6", "5", "5", "3", "7">>, <<"-", "5">>, <<"0", ":", "0">>,
      <<"1", ":", "1">>, <<"1", "0", "1", ":", "5">>, <<"a", "b">> }

ExtraArgs == { <<"6", "4">> }

\* argv[1..argc-1]; argv[0] is the program name.
CommandLines ==
    { <<>> }
    \cup { <<t>> : t \in ThreadArgs }
    \cup { <<t, s>> : t \in ThreadArgs, s \in SizeArgs }
    \cup { <<t, s, x>> : t \in ThreadArgs, s \in SizeArgs, x \in ExtraArgs }

\* The L3 sizes, in bytes, detection hands to main: every multiple of 512 KB
\* up to MaxL3MB MB, 0 included (detect_cache_linux stores a size it could
\* not read as 0).
L3Sizes == { m * (MB \div 2) : m \in 0..(2 * MaxL3MB) }

VARIABLES
    pc,          \* position of the process in main / run_benchmark
    argv,        \* the command line, without argv[0]
    num_threads, \* main's num_threads
    cache,       \* main's cache (only l3_size is consumed)
    array_mb,    \* main's array_mb
    array_size,  \* main's array_size, in units of 1024 elements
    heap,        \* a, b, c as pointers: "NULL", "allocated" or "freed"
    touched,     \* TRUE once the first-touch initialization has run
    k,           \* trial index of the timed loop
    j,           \* kernel index within the trial
    ran,         \* number of kernel invocations executed so far
    out,         \* what was printed, in order (tags)
    exit_code,   \* -1 while running, else the exit status
    info,        \* detect_cache_info's info
    index,       \* loop index of the sysfs and CPUID probes
    kernel,      \* the kernel being invoked
    team,        \* number of threads of the parallel region
    a,           \* contents of buffer a, indexed 0..N-1
    b,           \* contents of buffer b
    c,           \* contents of buffer c
    next_i,      \* per thread: the next index of its chunk
    sum,         \* per thread: its private copy of the reduction variable
    dummy_sum,   \* what kernel_read stored through sum_out
    a0,          \* buffer a when the kernel was called
    b0,          \* buffer b when the kernel was called
    c0,          \* buffer c when the kernel was called
    acc,         \* the accesses of the invocation: thread, buffer, index, kind
    times,       \* times[j][0..NTIMES-1] of the kernel j being reduced
    avgtime,     \* run_benchmark's avgtime, a quotient
    mintime,     \* run_benchmark's mintime
    maxtime,     \* run_benchmark's maxtime
    best_bw,     \* run_benchmark's best_bw, a quotient
    avg_bw,      \* run_benchmark's avg_bw, a quotient
    best_bandwidth, \* run_benchmark's best_bandwidth, a quotient
    owner,       \* per index: the thread that first touched it, -1 if none
    timer        \* times[j][k] of the invocation: "idle", "running", "stopped"

mainVars == <<pc, argv, num_threads, cache, array_mb, array_size, heap,
              touched, k, j, ran, out, exit_code>>

cacheVars == <<info, index>>

kernelVars == <<kernel, team, a, b, c, next_i, sum, dummy_sum, a0, b0, c0, acc>>

statsVars == <<times, avgtime, mintime, maxtime, best_bw, avg_bw, best_bandwidth>>

trialVars == <<owner, timer>>

vars == <<mainVars, cacheVars, kernelVars, statsVars, trialVars>>

\* main's variables other than pc.
mainRest == <<argv, num_threads, cache, array_mb, array_size, heap, touched,
              k, j, ran, out, exit_code>>

\* What the actions of main and run_benchmark leave alone.
notMain == <<cacheVars, kernelVars, statsVars, trialVars>>

\* What the actions of detect_cache_info leave alone.
notCache == <<kernelVars, statsVars, trialVars>>

\* What the actions of a kernel invocation leave alone.
notKernel == <<mainRest, cacheVars, statsVars, trialVars>>

\* What the actions of the statistics reduction leave alone.
notStats == <<argv, num_threads, cache, array_mb, array_size, heap, touched,
              ran, exit_code, cacheVars, kernelVars, trialVars>>

argc == Len(argv) + 1

NoHeap == [a |-> "NULL", b |-> "NULL", c |-> "NULL"]

MainInit ==
    /\ pc = "main"
    /\ argv \in CommandLines
    /\ num_threads = 0
    /\ cache = [l3_size |-> DEFAULT_L3]
    /\ array_mb = 0
    /\ array_size = 0
    /\ heap = NoHeap
    /\ touched = FALSE
    /\ k = 0
    /\ j = 0
    /\ ran = 0
    /\ out = <<>>
    /\ exit_code = -1

NoInfo == [l1d_size |-> 0, l1i_size |-> 0, l2_size |-> 0, l3_size |-> 0,
           line_size |-> 0, num_cores |-> 0]

\* detect_cache_info has not been entered.
CacheIdle ==
    /\ info = NoInfo
    /\ index = 0

\* No kernel is being invoked.
KernelIdle ==
    /\ kernel = "none"
    /\ team = 0
    /\ a = <<>>
    /\ b = <<>>
    /\ c = <<>>
    /\ next_i = <<>>
    /\ sum = <<>>
    /\ dummy_sum = 0
    /\ a0 = <<>>
    /\ b0 = <<>>
    /\ c0 = <<>>
    /\ acc = {}

\* The quotient n / d of a non-negative and a positive number, kept as the
\* pair (0 / 1 is the 0.0 a variable starts from).
Q(n, d) == [num |-> n, den |-> d]

\* The statistics reduction has not started.
StatsIdle ==
    /\ times = <<>>
    /\ avgtime = Q(0, 1)
    /\ mintime = 0
    /\ maxtime = 0
    /\ best_bw = Q(0, 1)
    /\ avg_bw = Q(0, 1)
    /\ best_bandwidth = Q(0, 1)

\* The timed trial loop is not being followed.
TrialIdle ==
    /\ owner = <<>>
    /\ timer = "idle"

\* ------------------------------------------------------------------------
\* main
\* ------------------------------------------------------------------------

\* if (argc < 2) { print_usage(argv[0]); return 1; }
main_usage ==
    /\ UNCHANGED notMain
    /\ pc = "main"
    /\ argc < 2
    /\ out' = Append(out, "usage")
    /\ exit_code' = 1
    /\ pc' = "exit"
    /\ UNCHANGED <<argv, num_threads, cache, array_mb, array_size, heap,
                   touched, k, j, ran>>

\* A range check that lets 0 and 1025 through.
ThreadsRejected_off_by_one(n) == n < 0 \/ n > MAX_THREADS + 1

ThreadsRejected(n) == n <= 0 \/ n > MAX_THREADS

\* num_threads = atoi(argv[1]); the range check and its return 1.
main_threads ==
    /\ UNCHANGED notMain
    /\ pc = "main"
    /\ argc >= 2
    /\ num_threads' = atoi(argv[1])
    /\ IF ThreadsRejected(num_threads')
       THEN /\ out' = Append(out, "err_threads")
            /\ exit_code' = 1
            /\ pc' = "exit"
       ELSE /\ pc' = "detect"
            /\ UNCHANGED <<out, exit_code>>
    /\ UNCHANGED <<argv, cache, array_mb, array_size, heap, touched, k, j, ran>>

\* cache = detect_cache_info(); the system info and print_cache_info.  The
\* detection itself is the actions of SpecCache below; here it hands main
\* any of the L3 sizes.
main_detect ==
    /\ UNCHANGED notMain
    /\ pc = "detect"
    /\ \E l3 \in L3Sizes : cache' = [l3_size |-> l3]
    /\ out' = out \o <<"sysinfo", "cacheinfo">>
    /\ pc' = "size"
    /\ UNCHANGED <<argv, num_threads, array_mb, array_size, heap, touched,
                   k, j, ran, exit_code>>

\* size_t array_mb = atol(argv[2]): a negative long converts to a value of at
\* least 2^63, which the range check rejects as too large.
SizeRejected(v) == v < 0 \/ v < 1 \/ v > MAX_ARRAY_MB

\* The sizing without the division by the three arrays.
AutoArrayMB_no_third(l3_size) ==
    LET l3_mb == l3_size \div MB
    IN  MAX(l3_mb * 4, MIN_ARRAY_MB)

\* size_t l3_mb = cache.l3_size / (1024 * 1024);
\* array_mb = MAX(l3_mb * 4 / 3, 128);
AutoArrayMB(l3_size) ==
    LET l3_mb == l3_size \div MB
    IN  MAX((l3_mb * 4) \div 3, MIN_ARRAY_MB)

\* size_t array_size = (array_mb * 1024 * 1024) / sizeof(double), in units of
\* 1024 elements.
ArraySize(mb) == (mb * 1024) \div SIZEOF_DOUBLE

\* The array size calculation with an operator-supplied size.
main_size_arg ==
    /\ UNCHANGED notMain
    /\ pc = "size"
    /\ argc >= 3
    /\ LET v == atol(argv[2]) IN
       IF SizeRejected(v)
       THEN /\ out' = Append(out, "err_size")
            /\ exit_code' = 1
            /\ pc' = "exit"
            /\ UNCHANGED <<array_mb, array_size>>
       ELSE /\ array_mb' = v
            /\ array_size' = ArraySize(v)
            /\ pc' = "alloc"
            /\ UNCHANGED <<out, exit_code>>
    /\ UNCHANGED <<argv, num_threads, cache, heap, touched, k, j, ran>>

\* The array size calculation without one.
main_size_auto ==
    /\ UNCHANGED notMain
    /\ pc = "size"
    /\ argc < 3
    /\ array_mb' = AutoArrayMB(cache.l3_size)
    /\ array_size' = ArraySize(array_mb')
    /\ out' = Append(out, "autosize")
    /\ pc' = "alloc"
    /\ UNCHANGED <<argv, num_threads, cache, heap, touched, k, j, ran, exit_code>>

\* ------------------------------------------------------------------------
\* run_benchmark
\* ------------------------------------------------------------------------

\* alloc_aligned: posix_memalign gives the block or fails (NULL).
AllocResults == {"NULL", "allocated"}

\* The three allocations and the check that follows them.
run_alloc ==
    /\ UNCHANGED notMain
    /\ pc = "alloc"
    /\ \E ra \in AllocResults, rb \in AllocResults, rc \in AllocResults :
         /\ heap' = [a |-> ra, b |-> rb, c |-> rc]
         /\ IF ra = "NULL" \/ rb = "NULL" \/ rc = "NULL"
            THEN /\ out' = Append(out, "err_alloc")
                 /\ exit_code' = 1
                 /\ pc' = "exit"
            ELSE /\ pc' = "header"
                 /\ UNCHANGED <<out, exit_code>>
    /\ UNCHANGED <<argv, num_threads, cache, array_mb, array_size, touched,
                   k, j, ran>>

\* The "Arrays vs L3" line: total_mem > l3_mb * 4, total_mem > l3_mb, or
\* neither, over doubles that hold these quotients exactly.  With the sizes
\* in KB: total_kb > 4 * l3_size / 1024 exactly when total_kb exceeds the
\* integer part of the right-hand side.
ArraysVsL3(size, l3_size) ==
    LET total_kb == 3 * size * SIZEOF_DOUBLE
    IN  IF total_kb > (4 * l3_size) \div 1024 THEN "dram"
        ELSE IF total_kb > l3_size \div 1024 THEN "mostly_dram"
        ELSE "fits_in_l3"

run_header ==
    /\ UNCHANGED notMain
    /\ pc = "header"
    /\ out' = out \o <<"header", ArraysVsL3(array_size, cache.l3_size)>>
    /\ pc' = "init"
    /\ UNCHANGED <<argv, num_threads, cache, array_mb, array_size, heap,
                   touched, k, j, ran, exit_code>>

\* The first-touch initialization and the "Actual threads" line.
run_init ==
    /\ UNCHANGED notMain
    /\ pc = "init"
    /\ touched' = TRUE
    /\ out' = out \o <<"actual_threads", "running">>
    /\ k' = 0
    /\ j' = 0
    /\ pc' = "trials"
    /\ UNCHANGED <<argv, num_threads, cache, array_mb, array_size, heap,
                   ran, exit_code>>

\* One timed kernel invocation of the trial loop: kernel j of trial k.
run_kernel ==
    /\ UNCHANGED notMain
    /\ pc = "trials"
    /\ k < NTIMES
    /\ ran' = ran + 1
    /\ IF j + 1 < NKERNELS
       THEN /\ j' = j + 1
            /\ k' = k
       ELSE /\ j' = 0
            /\ k' = k + 1
    /\ UNCHANGED <<pc, argv, num_threads, cache, array_mb, array_size, heap,
                   touched, out, exit_code>>

\* The result table and the peak bandwidth banner.
run_report ==
    /\ UNCHANGED notMain
    /\ pc = "trials"
    /\ k = NTIMES
    /\ out' = out \o <<"rows", "peak">>
    /\ pc' = "free"
    /\ UNCHANGED <<argv, num_threads, cache, array_mb, array_size, heap,
                   touched, k, j, ran, exit_code>>

\* aligned_free(a); aligned_free(b); aligned_free(c); and main's return 0.
run_free ==
    /\ UNCHANGED notMain
    /\ pc = "free"
    /\ heap' = [a |-> "freed", b |-> "freed", c |-> "freed"]
    /\ exit_code' = 0
    /\ pc' = "exit"
    /\ UNCHANGED <<argv, num_threads, cache, array_mb, array_size, touched,
                   k, j, ran, out>>

\* ------------------------------------------------------------------------
\* Properties of main and run_benchmark (specification Spec)
\* ------------------------------------------------------------------------

Printed(tag) == \E i \in DOMAIN out : out[i] = tag

\* The array size has been decided.
Sized ==
    \/ pc \in {"alloc", "header", "init", "trials", "free"}
    \/ Printed("err_alloc")
    \/ exit_code = 0

AllAllocated == heap = [a |-> "allocated", b |-> "allocated", c |-> "allocated"]

\* Nothing of the benchmark has been reached: no allocation, no
\* initialization, no kernel.
NothingRun ==
    /\ pc \in {"main", "detect", "size", "exit"}
    /\ heap = NoHeap
    /\ ~touched
    /\ ran = 0
    /\ ~Printed("err_alloc")

\* C3: with no array size given, the total working set (3 arrays of
\* array_size doubles) is at least 4 times the detected L3 size in bytes.
C3_WorkingSetAtLeast4xL3 ==
    (Sized /\ argc < 3) =>
        3 * (array_size * 1024) * SIZEOF_DOUBLE >= 4 * cache.l3_size

\* C4: with no operator override the per-array size in MB is
\* max(l3_mb * 4 / 3, 128), l3_mb the detected L3 size in whole MB, and L3 =
\* 8 MiB gives 128 MB, 16,777,216 elements; an operator-supplied size in
\* [1, 65536] is used as it is, whatever the topology; in both cases the
\* element count is array_mb * 1024 * 1024 / 8.
C4_SizingLaw ==
    Sized =>
        /\ argc < 3 =>
             LET l3_mb == cache.l3_size \div 1048576
                 third == (l3_mb * 4) \div 3
             IN  /\ array_mb = (IF third >= 128 THEN third ELSE 128)
                 /\ cache.l3_size = 8388608 =>
                        /\ array_mb = 128
                        /\ array_size * 1024 = 16777216
        /\ argc >= 3 =>
             /\ array_mb = atol(argv[2])
             /\ array_mb \in 1..65536
        /\ array_size * SIZEOF_DOUBLE = array_mb * 1024

\* C4's case: the default L3 of 8 MiB, no override, sized to 16,777,216
\* elements.
C4_Witness ==
    /\ pc = "alloc"
    /\ argc < 3
    /\ cache.l3_size = DEFAULT_L3
    /\ array_size * 1024 = 16777216

\* C5: a thread count outside [1, 1024] or a supplied array size outside
\* [1, 65536] ends the process with exit code 1 before any allocation,
\* initialization or kernel; no arguments prints the usage and exits with 1;
\* a run that completes the benchmark and report exits with 0.
C5_Validation ==
    /\ ( \/ (argc >= 2 /\ atoi(argv[1]) \notin 1..1024)
         \/ (argc >= 3 /\ atol(argv[2]) \notin 1..65536) ) =>
            /\ NothingRun
            /\ pc = "exit" => exit_code = 1
    /\ (argc < 2 /\ pc = "exit") => (exit_code = 1 /\ out = <<"usage">>)
    /\ (pc = "exit" /\ Printed("peak")) => exit_code = 0
    /\ exit_code = 0 => Printed("peak")

\* C5's case: valid thread count, array size 65537, rejected with code 1.
C5_Witness ==
    /\ pc = "exit"
    /\ exit_code = 1
    /\ Len(argv) = 2
    /\ atoi(argv[1]) = 1024
    /\ atol(argv[2]) = 65537
    /\ Printed("err_size")

\* The index of the first ":" of s, or 0.
ColonAt(s) ==
    IF \E i \in DOMAIN s : s[i] = ":"
    THEN CHOOSE i \in DOMAIN s : s[i] = ":" /\ \A h \in 1..(i - 1) : s[h] # ":"
    ELSE 0

AllDigits(s) == s # <<>> /\ \A i \in DOMAIN s : s[i] \in Digits

\* s is a well-formed access pattern reads:writes, each in 0..100, not both 0.
PatternOK(s) ==
    LET i == ColonAt(s)
        r == SubSeq(s, 1, i - 1)
        w == SubSeq(s, i + 1, Len(s))
    IN  /\ i > 0
        /\ AllDigits(r)
        /\ AllDigits(w)
        /\ strtol_digits(r, 1, 0) <= 100
        /\ strtol_digits(w, 1, 0) <= 100
        /\ ~(strtol_digits(r, 1, 0) = 0 /\ strtol_digits(w, 1, 0) = 0)

Str_4 == <<"4">>

Str_64 == <<"6", "4">>

Str_1c1 == <<"1", ":", "1">>

Str_0c0 == <<"0", ":", "0">>

Str_101c5 == <<"1", "0", "1", ":", "5">>

\* C6 as stated: the second argument is an access pattern; "0:0", a value
\* above 100 and a malformed pattern are rejected with exit code 1 and no
\* allocation, and 4 threads, pattern "1:1", 64 MB allocates three buffers
\* of 8,388,608 elements.
C6_PatternArgument ==
    /\ (argc >= 3 /\ ~PatternOK(argv[2])) =>
            /\ NothingRun
            /\ pc = "exit" => exit_code = 1
    /\ (argv = <<Str_4, Str_1c1, Str_64>> /\ AllAllocated) =>
            array_size * 1024 = 8388608

\* C6 amended: the second argument is the optional array size in MB, read by
\* atol (leading digits; the rest is ignored).  "0:0" and a non-numeric
\* argument read as 0 and are rejected with exit code 1 and no allocation;
\* "101:5" reads as 101 MB and "1:1" as 1 MB, both accepted; 4 threads and
\* size 64 allocates three buffers of 8,388,608 elements, and the command
\* line 4 1:1 64 three buffers of 131,072 elements.
C6_SizeArgument ==
    /\ (argc >= 3 /\ (argv[2] = Str_0c0 \/ argv[2][1] \notin Digits)) =>
            /\ NothingRun
            /\ pc = "exit" => exit_code = 1
    /\ (argc >= 3 /\ argv[2] = Str_101c5) =>
            /\ ~Printed("err_size")
            /\ Sized => array_mb = 101
    /\ (argc >= 3 /\ argv[2] = Str_1c1) =>
            /\ ~Printed("err_size")
            /\ Sized => array_mb = 1
    /\ (argv = <<Str_4, Str_64>> /\ AllAllocated) => array_size * 1024 = 8388608
    /\ (argv = <<Str_4, Str_1c1, Str_64>> /\ AllAllocated) =>
            array_size * 1024 = 131072

\* C6's case: the command line 4 1:1 64 with its three buffers allocated.
C6_Witness ==
    /\ argv = <<Str_4, Str_1c1, Str_64>>
    /\ AllAllocated
    /\ pc = "header"
    /\ array_size * 1024 = 131072

\* C9: a failed allocation is reported and ends the process at once with a
\* non-zero exit code, nothing initialized, timed or printed of the
\* benchmark; and whenever the run has ended, every buffer that was obtained
\* has been released.
C9_AllocFailureAndRelease ==
    /\ (\E p \in {"a", "b", "c"} : heap[p] = "NULL" /\ pc = "exit" /\ Sized) =>
            /\ Printed("err_alloc")
            /\ exit_code > 0
            /\ ~touched
            /\ ran = 0
            /\ ~Printed("header")
            /\ ~Printed("rows")
    /\ pc = "exit" => \A p \in {"a", "b", "c"} : heap[p] # "allocated"

Init == MainInit /\ CacheIdle /\ KernelIdle /\ StatsIdle /\ TrialIdle

Next ==
    \/ main_usage
    \/ main_threads
    \/ main_detect
    \/ main_size_arg
    \/ main_size_auto
    \/ run_alloc
    \/ run_header
    \/ run_init
    \/ run_kernel
    \/ run_report
    \/ run_free

Spec == Init /\ [][Next]_vars

\* ------------------------------------------------------------------------
\* detect_cache_info (Linux build on x86: sysfs, /proc/cpuinfo, then CPUID)
\* ------------------------------------------------------------------------

NUM_INDEX == 4

MAX_SUBLEAF == 32

DEFAULT_LINE == 64

DEFAULT_L1 == 32 * 1024

DEFAULT_L2 == 256 * 1024

\* A file the probe opens: absent, readable but without a parsable first
\* item, or holding text.
Missing == [st |-> "missing"]

Empty == [st |-> "empty"]

\* index<i>/level
LevelFiles == {Missing, Empty} \cup { [st |-> "text", val |-> v] : v \in 1..4 }

\* index<i>/type
TypeFiles ==
    {Missing, Empty}
    \cup { [st |-> "text", val |-> v] : v \in {"Data", "Instruction", "Unified"} }

\* index<i>/size: a number and the character after it ("32K", "32\n").
SizeFiles ==
    {Missing, Empty}
    \cup { [st |-> "text", val |-> v, unit |-> u] : v \in {0, 32}, u \in {"K", "\n"} }

\* index<i>/coherency_line_size
LineFiles == {Missing, Empty} \cup { [st |-> "text", val |-> v] : v \in {0, 64, 128} }

\* index<i>/shared_cpu_list
SharedFiles ==
    {Missing, Empty} \cup { [st |-> "text", val |-> v] : v \in {"0-7", "0,4"} }

\* Largest core id /proc/cpuinfo lists.
MaxCoreId == 1

\* /proc/cpuinfo: absent, or its largest "core id" (-1 when it has none).
CpuinfoFiles == {Missing} \cup { [st |-> "text", val |-> v] : v \in (-1)..MaxCoreId }

\* sysconf(_SC_NPROCESSORS_ONLN) on Linux: at least one processor is online.
OnlineCpus == 1..(MaxCoreId + 1)

\* fopen fails, fgets fails or sscanf stores nothing: 0; else val, times 1024
\* for unit K and 1024 * 1024 for unit M.
read_cache_size(f) ==
    IF f.st # "text" THEN 0
    ELSE IF f.unit = "K" THEN f.val * 1024
    ELSE IF f.unit = "M" THEN f.val * 1024 * 1024
    ELSE f.val

\* One iteration of the sysfs loop of detect_cache_linux.
sysfs_index(inf, levelf, typef, sizef, linef, sharedf) ==
    IF levelf.st # "text" THEN inf
    ELSE IF typef.st # "text" THEN inf
    ELSE
        LET level == levelf.val
            type == typef.val
            size == read_cache_size(sizef)
            inf1 == IF linef.st = "text"
                    THEN [inf EXCEPT !.line_size = linef.val]
                    ELSE inf
        IN  IF level = 1
            THEN IF type = "Data" THEN [inf1 EXCEPT !.l1d_size = size]
                 ELSE IF type = "Instruction" THEN [inf1 EXCEPT !.l1i_size = size]
                 ELSE inf1
            ELSE IF level = 2 THEN [inf1 EXCEPT !.l2_size = size]
            ELSE IF level = 3
            THEN IF sharedf.st = "empty" THEN inf1
                 ELSE [inf1 EXCEPT !.l3_size = size]
            ELSE inf1

\* cache_info_t info = {0}; and the defaults.
detect_cache_info ==
    /\ UNCHANGED notCache
    /\ pc = "detect_cache_info"
    /\ info' = [l1d_size |-> DEFAULT_L1, l1i_size |-> DEFAULT_L1,
                l2_size |-> DEFAULT_L2, l3_size |-> DEFAULT_L3,
                line_size |-> DEFAULT_LINE, num_cores |-> 0]
    /\ index' = 0
    /\ pc' = "sysfs"
    /\ UNCHANGED <<argv, num_threads, cache, array_mb, array_size, heap,
                   touched, k, j, ran, out, exit_code>>

\* detect_cache_linux: the body of for (int i = 0; i < 4; i++).
detect_cache_linux_index ==
    /\ UNCHANGED notCache
    /\ pc = "sysfs"
    /\ index < NUM_INDEX
    /\ \E levelf \in LevelFiles, typef \in TypeFiles, sizef \in SizeFiles,
          linef \in LineFiles, sharedf \in SharedFiles :
         info' = sysfs_index(info, levelf, typef, sizef, linef, sharedf)
    /\ index' = index + 1
    /\ UNCHANGED <<pc, argv, num_threads, cache, array_mb, array_size, heap,
                   touched, k, j, ran, out, exit_code>>

\* The core count: max_core_id + 1 from /proc/cpuinfo, then sysconf when the
\* count is still 0.
linux_cores(inf, cpuinfo, online) ==
    LET n == IF cpuinfo.st = "text" THEN cpuinfo.val + 1 ELSE inf.num_cores
    IN  [inf EXCEPT !.num_cores = IF n = 0 THEN online ELSE n]

\* detect_cache_linux after the loop.
detect_cache_linux_cores ==
    /\ UNCHANGED notCache
    /\ pc = "sysfs"
    /\ index = NUM_INDEX
    /\ \E cpuinfo \in CpuinfoFiles, online \in OnlineCpus :
         info' = linux_cores(info, cpuinfo, online)
    /\ pc' = "fallback"
    /\ UNCHANGED <<index, argv, num_threads, cache, array_mb, array_size, heap,
                   touched, k, j, ran, out, exit_code>>

\* if (info.l3_size == 8 * 1024 * 1024) is false: no CPUID probe.
detect_cache_info_return ==
    /\ UNCHANGED notCache
    /\ pc = "fallback"
    /\ info.l3_size # DEFAULT_L3
    /\ pc' = "detected"
    /\ UNCHANGED <<info, index, argv, num_threads, cache, array_mb, array_size,
                   heap, touched, k, j, ran, out, exit_code>>

\* detect_cache_cpuid: cpuid(0, 0, ...) and if (eax < 4) return.
detect_cache_cpuid ==
    /\ UNCHANGED notCache
    /\ pc = "fallback"
    /\ info.l3_size = DEFAULT_L3
    /\ \E eax \in {1, 4} :
         pc' = IF eax < 4 THEN "detected" ELSE "cpuid"
    /\ index' = 0
    /\ UNCHANGED <<info, argv, num_threads, cache, array_mb, array_size, heap,
                   touched, k, j, ran, out, exit_code>>

\* The size of the cache a CPUID leaf 4 subleaf describes: line size,
\* partitions and ways are the fields of ebx plus 1, the sets ecx plus 1.
cpuid_size(line_m1, parts_m1, ways_m1, ecx) ==
    (line_m1 + 1) * (parts_m1 + 1) * (ways_m1 + 1) * (ecx + 1)

\* What one subleaf with a cache in it stores.
cpuid_subleaf(inf, cache_type, cache_level, line_m1, size) ==
    LET inf1 == [inf EXCEPT !.line_size = line_m1 + 1]
    IN  IF cache_level = 1 /\ cache_type = 1 THEN [inf1 EXCEPT !.l1d_size = size]
        ELSE IF cache_level = 1 /\ cache_type = 2 THEN [inf1 EXCEPT !.l1i_size = size]
        ELSE IF cache_level = 2 THEN [inf1 EXCEPT !.l2_size = size]
        ELSE IF cache_level = 3 THEN [inf1 EXCEPT !.l3_size = size]
        ELSE inf1

\* detect_cache_cpuid: one iteration of for (int i = 0; i < 32; i++) that
\* finds a cache.
detect_cache_cpuid_subleaf ==
    /\ UNCHANGED notCache
    /\ pc = "cpuid"
    /\ index < MAX_SUBLEAF
    /\ \E cache_type \in 1..3, cache_level \in 1..4, ecx \in {63, 8191} :
         info' = cpuid_subleaf(info, cache_type, cache_level, 63,
                               cpuid_size(63, 0, 7, ecx))
    /\ index' = index + 1
    /\ UNCHANGED <<pc, argv, num_threads, cache, array_mb, array_size, heap,
                   touched, k, j, ran, out, exit_code>>

\* detect_cache_cpuid: cache_type == 0 (no more caches), or the loop ends.
detect_cache_cpuid_end ==
    /\ UNCHANGED notCache
    /\ pc = "cpuid"
    /\ pc' = "detected"
    /\ UNCHANGED <<info, index, argv, num_threads, cache, array_mb, array_size,
                   heap, touched, k, j, ran, out, exit_code>>

\* main and run_benchmark are not running.
MainIdle ==
    /\ argv = <<>>
    /\ num_threads = 0
    /\ cache = [l3_size |-> DEFAULT_L3]
    /\ array_mb = 0
    /\ array_size = 0
    /\ heap = NoHeap
    /\ touched = FALSE
    /\ k = 0
    /\ j = 0
    /\ ran = 0
    /\ out = <<>>
    /\ exit_code = -1

InitCache ==
    /\ pc = "detect_cache_info"
    /\ MainIdle
    /\ CacheIdle
    /\ KernelIdle
    /\ StatsIdle
    /\ TrialIdle

NextCache ==
    \/ detect_cache_info
    \/ detect_cache_linux_index
    \/ detect_cache_linux_cores
    \/ detect_cache_info_return
    \/ detect_cache_cpuid
    \/ detect_cache_cpuid_subleaf
    \/ detect_cache_cpuid_end

SpecCache == InitCache /\ [][NextCache]_vars

\* C10: detection always returns, and the topology it returns has l1d, l1i,
\* l2, l3 and the line size positive and at least one physical core; once
\* the defaults are set no probe leaves a size or the line size at zero.
C10_TopologyPositive ==
    /\ pc \in {"sysfs", "fallback", "cpuid", "detected"} =>
            /\ info.l1d_size > 0
            /\ info.l1i_size > 0
            /\ info.l2_size > 0
            /\ info.l3_size > 0
            /\ info.line_size > 0
    /\ pc = "detected" => info.num_cores >= 1

\* ------------------------------------------------------------------------
\* The benchmark kernels: one invocation by a team of threads
\* ------------------------------------------------------------------------

\* Number of elements of the buffers of a kernel invocation.
N == 3

\* Largest team of threads.
MaxTeam == 3

\* The values the buffers hold when a kernel is called.
BufferValues == {1, 2}

Buffers == [0..(N - 1) -> BufferValues]

ParallelKernels == {"copy", "scale", "add", "triad", "read", "write"}

Kernels == ParallelKernels \cup {"memcpy"}

\* double scalar = 3.0;
scalar == 3

\* kernel_write(array_size, 1.0)
val == 1

Threads == 0..(team - 1)

\* A chunk that starts one index early.
chunk_start_early(tid, n, nthreads) ==
    LET q == n \div nthreads
        r == n % nthreads
        s0 == IF tid < r THEN (q + 1) * tid ELSE q * tid + r
    IN  IF s0 > 0 THEN s0 - 1 ELSE 0

\* schedule(static) without a chunk size: n / nthreads iterations for each
\* thread, one more for the first n % nthreads threads, contiguous and in
\* thread order.
chunk_start(tid, n, nthreads) ==
    LET q == n \div nthreads
        r == n % nthreads
    IN  IF tid < r THEN (q + 1) * tid ELSE q * tid + r

chunk_end(tid, n, nthreads) ==
    LET q == n \div nthreads
        r == n % nthreads
    IN  chunk_start(tid, n, nthreads) + (IF tid < r THEN q + 1 ELSE q)

\* c[i] = a[i];
copy_val(av) == av

\* b[i] = scalar * c[i];
scale_val(cv) == scalar * cv

\* An add that subtracts.
add_val_minus(av, bv) == av - bv

\* c[i] = a[i] + b[i];
add_val(av, bv) == av + bv

\* a[i] = b[i] + scalar * c[i];
triad_val(bv, cv) == bv + scalar * cv

Access(tid, buf, i, kind) == [t |-> tid, buf |-> buf, i |-> i, kind |-> kind]

\* The parallel region of a kernel starts: every thread is at the start of
\* its chunk, with its private sum at 0.0.
kernel_fork ==
    /\ pc = "call"
    /\ kernel \in ParallelKernels
    /\ next_i' = [tid \in Threads |-> chunk_start(tid, N, team)]
    /\ sum' = [tid \in Threads |-> 0]
    /\ pc' = "parallel"
    /\ UNCHANGED <<kernel, team, a, b, c, dummy_sum, a0, b0, c0, acc>>
    /\ UNCHANGED notKernel

\* Thread tid has an iteration left in its chunk.
HasIteration(tid, name) ==
    /\ pc = "parallel"
    /\ kernel = name
    /\ next_i[tid] < chunk_end(tid, N, team)

\* One iteration of kernel_copy by one thread.
kernel_copy ==
    \E tid \in Threads :
        /\ HasIteration(tid, "copy")
        /\ LET i == next_i[tid] IN
             /\ c' = [c EXCEPT ![i] = copy_val(a[i])]
             /\ acc' = acc \cup {Access(tid, "a", i, "read"), Access(tid, "c", i, "write")}
        /\ next_i' = [next_i EXCEPT ![tid] = @ + 1]
        /\ UNCHANGED <<pc, kernel, team, a, b, sum, dummy_sum, a0, b0, c0>>
        /\ UNCHANGED notKernel

\* One iteration of kernel_scale by one thread.
kernel_scale ==
    \E tid \in Threads :
        /\ HasIteration(tid, "scale")
        /\ LET i == next_i[tid] IN
             /\ b' = [b EXCEPT ![i] = scale_val(c[i])]
             /\ acc' = acc \cup {Access(tid, "c", i, "read"), Access(tid, "b", i, "write")}
        /\ next_i' = [next_i EXCEPT ![tid] = @ + 1]
        /\ UNCHANGED <<pc, kernel, team, a, c, sum, dummy_sum, a0, b0, c0>>
        /\ UNCHANGED notKernel

\* One iteration of kernel_add by one thread.
kernel_add ==
    \E tid \in Threads :
        /\ HasIteration(tid, "add")
        /\ LET i == next_i[tid] IN
             /\ c' = [c EXCEPT ![i] = add_val(a[i], b[i])]
             /\ acc' = acc \cup {Access(tid, "a", i, "read"), Access(tid, "b", i, "read"),
                                 Access(tid, "c", i, "write")}
        /\ next_i' = [next_i EXCEPT ![tid] = @ + 1]
        /\ UNCHANGED <<pc, kernel, team, a, b, sum, dummy_sum, a0, b0, c0>>
        /\ UNCHANGED notKernel

\* One iteration of kernel_triad by one thread.
kernel_triad ==
    \E tid \in Threads :
        /\ HasIteration(tid, "triad")
        /\ LET i == next_i[tid] IN
             /\ a' = [a EXCEPT ![i] = triad_val(b[i], c[i])]
             /\ acc' = acc \cup {Access(tid, "b", i, "read"), Access(tid, "c", i, "read"),
                                 Access(tid, "a", i, "write")}
        /\ next_i' = [next_i EXCEPT ![tid] = @ + 1]
        /\ UNCHANGED <<pc, kernel, team, b, c, sum, dummy_sum, a0, b0, c0>>
        /\ UNCHANGED notKernel

\* One iteration of kernel_read by one thread: sum += a[i] on its private sum.
kernel_read ==
    \E tid \in Threads :
        /\ HasIteration(tid, "read")
        /\ LET i == next_i[tid] IN
             /\ sum' = [sum EXCEPT ![tid] = @ + a[i]]
             /\ acc' = acc \cup {Access(tid, "a", i, "read")}
        /\ next_i' = [next_i EXCEPT ![tid] = @ + 1]
        /\ UNCHANGED <<pc, kernel, team, a, b, c, dummy_sum, a0, b0, c0>>
        /\ UNCHANGED notKernel

\* One iteration of kernel_write by one thread.
kernel_write ==
    \E tid \in Threads :
        /\ HasIteration(tid, "write")
        /\ LET i == next_i[tid] IN
             /\ a' = [a EXCEPT ![i] = val]
             /\ acc' = acc \cup {Access(tid, "a", i, "write")}
        /\ next_i' = [next_i EXCEPT ![tid] = @ + 1]
        /\ UNCHANGED <<pc, kernel, team, b, c, sum, dummy_sum, a0, b0, c0>>
        /\ UNCHANGED notKernel

RECURSIVE SumUpTo(_, _)
\* f[0] + ... + f[n - 1]
SumUpTo(f, n) == IF n = 0 THEN 0 ELSE SumUpTo(f, n - 1) + f[n - 1]

\* A parallel region that returns without waiting for its threads.
kernel_join_nowait ==
    /\ pc = "parallel"
    /\ dummy_sum' = IF kernel = "read" THEN SumUpTo(sum, team) ELSE dummy_sum
    /\ pc' = "returned"
    /\ UNCHANGED <<kernel, team, a, b, c, next_i, sum, a0, b0, c0, acc>>
    /\ UNCHANGED notKernel

\* The end of the parallel region: every thread has finished its chunk; the
\* reduction adds the private sums to the original (0.0), and kernel_read
\* stores it through sum_out.
kernel_join ==
    /\ pc = "parallel"
    /\ \A tid \in Threads : next_i[tid] = chunk_end(tid, N, team)
    /\ dummy_sum' = IF kernel = "read" THEN SumUpTo(sum, team) ELSE dummy_sum
    /\ pc' = "returned"
    /\ UNCHANGED <<kernel, team, a, b, c, next_i, sum, a0, b0, c0, acc>>
    /\ UNCHANGED notKernel

\* kernel_memcpy: memcpy(c, a, n * sizeof(double)) by the calling thread.
kernel_memcpy ==
    /\ pc = "call"
    /\ kernel = "memcpy"
    /\ c' = a
    /\ acc' = acc \cup UNION { {Access(0, "a", i, "read"), Access(0, "c", i, "write")} :
                               i \in 0..(N - 1) }
    /\ pc' = "returned"
    /\ UNCHANGED <<kernel, team, a, b, next_i, sum, dummy_sum, a0, b0, c0>>
    /\ UNCHANGED notKernel

\* A kernel is called with any team and any buffer contents.
InitKernel ==
    /\ pc = "call"
    /\ MainIdle
    /\ CacheIdle
    /\ StatsIdle
    /\ TrialIdle
    /\ kernel \in Kernels
    /\ team \in 1..MaxTeam
    /\ a \in Buffers
    /\ b \in Buffers
    /\ c \in Buffers
    /\ next_i = <<>>
    /\ sum = <<>>
    /\ dummy_sum = 0
    /\ a0 = a
    /\ b0 = b
    /\ c0 = c
    /\ acc = {}

NextKernel ==
    \/ kernel_fork
    \/ kernel_copy
    \/ kernel_scale
    \/ kernel_add
    \/ kernel_triad
    \/ kernel_read
    \/ kernel_write
    \/ kernel_join
    \/ kernel_memcpy

SpecKernel == InitKernel /\ [][NextKernel]_vars

\* ------------------------------------------------------------------------
\* Properties of a kernel invocation (specification SpecKernel)
\* ------------------------------------------------------------------------

Indices == 0..(N - 1)

\* The access pattern (reads, writes) each kernel stands for.
PatternOf(name) ==
    CASE name = "copy" -> <<1, 1>>
      [] name = "scale" -> <<1, 1>>
      [] name = "add" -> <<2, 1>>
      [] name = "triad" -> <<2, 1>>
      [] name = "read" -> <<1, 0>>
      [] name = "write" -> <<0, 1>>
      [] name = "memcpy" -> <<1, 1>>

\* buffer[s mod 3], now and when the kernel was called.
Slot(s) == IF s % 3 = 0 THEN a ELSE IF s % 3 = 1 THEN b ELSE c

Slot0(s) == IF s % 3 = 0 THEN a0 ELSE IF s % 3 = 1 THEN b0 ELSE c0

RECURSIVE ReadSum(_, _)
\* The sum over r in [0, reads) of the pre-invocation buffer[r mod 3][i].
ReadSum(reads, i) ==
    IF reads = 0 THEN 0 ELSE ReadSum(reads - 1, i) + Slot0(reads - 1)[i]

\* C1 as stated: after one invocation of a kernel with pattern (reads,
\* writes), every element i of every written slot w equals the sum of the
\* pre-invocation reads at i divided by w + 1.
C1_PatternLaw ==
    (pc = "returned" /\ kernel \in ParallelKernels) =>
        LET reads == PatternOf(kernel)[1]
            writes == PatternOf(kernel)[2]
        IN  \A w \in 0..(writes - 1) : \A i \in Indices :
                Slot(w)[i] * (w + 1) = ReadSum(reads, i)

\* C1 amended: after one invocation on a small buffer, whatever the team,
\* every element of the buffer a kernel writes is that kernel's function of
\* the pre-invocation values at the same index, and the other buffers are as
\* they were: copy c = a, scale b = 3c, add c = a + b, triad a = b + 3c,
\* write a = 1, memcpy c = a, and read changes nothing and returns the sum
\* of a.
C1_KernelLaw ==
    pc = "returned" =>
        /\ kernel = "copy" =>
             /\ \A i \in Indices : c[i] = a0[i]
             /\ a = a0 /\ b = b0
        /\ kernel = "scale" =>
             /\ \A i \in Indices : b[i] = 3 * c0[i]
             /\ a = a0 /\ c = c0
        /\ kernel = "add" =>
             /\ \A i \in Indices : c[i] = a0[i] + b0[i]
             /\ a = a0 /\ b = b0
        /\ kernel = "triad" =>
             /\ \A i \in Indices : a[i] = b0[i] + 3 * c0[i]
             /\ b = b0 /\ c = c0
        /\ kernel = "read" =>
             /\ dummy_sum = SumUpTo(a0, N)
             /\ a = a0 /\ b = b0 /\ c = c0
        /\ kernel = "write" =>
             /\ \A i \in Indices : a[i] = 1
             /\ b = b0 /\ c = c0
        /\ kernel = "memcpy" =>
             /\ \A i \in Indices : c[i] = a0[i]
             /\ a = a0 /\ b = b0

\* C1's case: add has returned from a team of more than one thread, with
\* a result the pattern law does not give.
C1_Witness ==
    /\ pc = "returned"
    /\ kernel = "add"
    /\ team > 1
    /\ \A i \in Indices : c[i] = a0[i] + b0[i]
    /\ \E i \in Indices : a[i] # a0[i] + b0[i]

\* What a single thread leaves in a, b, c at index i, from the values there
\* when the kernel was called.
Sequential(name, i) ==
    CASE name = "copy" -> <<a0[i], b0[i], copy_val(a0[i])>>
      [] name = "scale" -> <<a0[i], scale_val(c0[i]), c0[i]>>
      [] name = "add" -> <<a0[i], b0[i], add_val(a0[i], b0[i])>>
      [] name = "triad" -> <<triad_val(b0[i], c0[i]), b0[i], c0[i]>>
      [] name = "read" -> <<a0[i], b0[i], c0[i]>>
      [] name = "write" -> <<val, b0[i], c0[i]>>
      [] name = "memcpy" -> <<a0[i], b0[i], a0[i]>>

\* The threads that touched index i.
Workers(i) == { x.t : x \in { y \in acc : y.i = i } }

\* C7: whatever the team and the interleaving, the buffers a kernel leaves
\* are those a single thread leaves; each index is processed by exactly one
\* thread, no two threads write the same cell, and no thread reads a cell
\* another thread writes in the invocation.
C7_ThreadCountInvariance ==
    /\ pc = "returned" =>
         /\ \A i \in Indices : <<a[i], b[i], c[i]>> = Sequential(kernel, i)
         /\ \A i \in Indices : Cardinality(Workers(i)) = 1
    /\ pc = "parallel" =>
         \A i \in Indices :
             Cardinality({ tid \in Threads :
                 chunk_start(tid, N, team) <= i /\ i < chunk_end(tid, N, team) }) = 1
    /\ \A x \in acc : \A y \in acc :
         (x.kind = "write" /\ x.buf = y.buf /\ x.i = y.i) => x.t = y.t

\* C7's case: a kernel that writes has returned from a full team, each
\* thread having processed an index.
C7_Witness ==
    /\ pc = "returned"
    /\ kernel = "triad"
    /\ team = MaxTeam
    /\ { x.t : x \in acc } = Threads
    /\ a # a0

\* ------------------------------------------------------------------------
\* run_benchmark: the statistics reduction over the timed trials
\* ------------------------------------------------------------------------

\* Times are whole numbers of microseconds, the unit of gettimeofday.  A
\* later reading of the clock is after an earlier one (the clock does not
\* step back, and a kernel over arrays of at least 1 MB takes more than a
\* microsecond), so that an elapsed time is positive.  With the time in
\* microseconds, bytes / seconds / 1e6 is bytes / microseconds.

\* Longest elapsed time of a timed trial.
MaxTime == 2

\* An artificially slow warm-up trial.
SlowSample == 1000

TimeVals == 1..MaxTime

\* The rows times[j][0..NTIMES-1]: any warm-up sample, any timed samples.
TimeRows ==
    { row \in [0..(NTIMES - 1) -> TimeVals \cup {SlowSample}] :
        \A kk \in 1..(NTIMES - 1) : row[kk] \in TimeVals }

\* The array sizes the reduction is run with: 1 MB and 64 MB arrays.
StatSizes == { ArraySize(1), ArraySize(64) }

\* double bytes[]: the values moved per element by each kernel, times
\* sizeof(double), times array_size (in units of 1024, as array_size is).
bytes_factor == <<2, 2, 3, 3, 1, 1, 2>>

bytes(jj, size) == bytes_factor[jj + 1] * SIZEOF_DOUBLE * size

\* for (int k = 1; ...
FIRST_TIMED == 1

\* x > y over quotients.
QGreater(x, y) == x.num * y.den > y.num * x.den

\* A reduction whose minimum and maximum start from the warm-up trial.
stats_start_warm(row) == [avgtime |-> 0, mintime |-> row[0], maxtime |-> row[0]]

\* avgtime = 0.0, mintime = times[j][1], maxtime = times[j][1]
stats_start(row) == [avgtime |-> 0, mintime |-> row[1], maxtime |-> row[1]]

\* The body of the loop over k.
stats_body(st, t) ==
    [avgtime |-> st.avgtime + t,
     mintime |-> MIN(st.mintime, t),
     maxtime |-> MAX(st.maxtime, t)]

RECURSIVE stats_loop(_, _, _)
stats_loop(st, row, kk) ==
    IF kk >= NTIMES THEN st ELSE stats_loop(stats_body(st, row[kk]), row, kk + 1)

\* avgtime /= (NTIMES - 1); best_bw = bytes[j] / mintime / 1e6;
\* avg_bw = bytes[j] / avgtime / 1e6;
stats_finish(st, nbytes) ==
    [avgtime |-> Q(st.avgtime, NTIMES - 1),
     mintime |-> st.mintime,
     maxtime |-> st.maxtime,
     best_bw |-> Q(nbytes, st.mintime),
     avg_bw |-> Q(nbytes * (NTIMES - 1), st.avgtime)]

\* One iteration of the loop over j: the row the report prints for kernel jj.
reduction(jj, size, row) ==
    stats_finish(stats_loop(stats_start(row), row, FIRST_TIMED), bytes(jj, size))

\* The loop over j starts an iteration: the times of kernel j, and the
\* initial avgtime, mintime, maxtime.
stats_begin ==
    /\ pc = "report"
    /\ j < NKERNELS
    /\ \E row \in TimeRows :
         /\ times' = row
         /\ avgtime' = Q(stats_start(row).avgtime, 1)
         /\ mintime' = stats_start(row).mintime
         /\ maxtime' = stats_start(row).maxtime
    /\ k' = FIRST_TIMED
    /\ pc' = "reduce"
    /\ UNCHANGED <<j, out, best_bw, avg_bw, best_bandwidth>>
    /\ UNCHANGED notStats

\* One iteration of the loop over k.
stats_iter ==
    /\ pc = "reduce"
    /\ k < NTIMES
    /\ LET st == stats_body([avgtime |-> avgtime.num, mintime |-> mintime,
                             maxtime |-> maxtime], times[k])
       IN  /\ avgtime' = Q(st.avgtime, 1)
           /\ mintime' = st.mintime
           /\ maxtime' = st.maxtime
    /\ k' = k + 1
    /\ UNCHANGED <<pc, j, out, times, best_bw, avg_bw, best_bandwidth>>
    /\ UNCHANGED notStats

\* After the loop over k: the average, the two bandwidths, the peak so far
\* and the row of the table.
stats_row ==
    /\ pc = "reduce"
    /\ k >= NTIMES
    /\ LET r == stats_finish([avgtime |-> avgtime.num, mintime |-> mintime,
                              maxtime |-> maxtime], bytes(j, array_size))
       IN  /\ avgtime' = r.avgtime
           /\ best_bw' = r.best_bw
           /\ avg_bw' = r.avg_bw
           /\ best_bandwidth' = IF QGreater(r.best_bw, best_bandwidth)
                                THEN r.best_bw
                                ELSE best_bandwidth
    /\ out' = Append(out, "row")
    /\ j' = j + 1
    /\ pc' = "report"
    /\ UNCHANGED <<k, times, mintime, maxtime>>
    /\ UNCHANGED notStats

\* After the loop over j: the peak bandwidth banner.
stats_peak ==
    /\ pc = "report"
    /\ j = NKERNELS
    /\ out' = Append(out, "peak")
    /\ pc' = "reported"
    /\ UNCHANGED <<j, k, times, avgtime, mintime, maxtime, best_bw, avg_bw,
                   best_bandwidth>>
    /\ UNCHANGED notStats

\* The trials are over; the table is about to be printed.
InitStats ==
    /\ pc = "report"
    /\ argv = <<>>
    /\ num_threads = 0
    /\ cache = [l3_size |-> DEFAULT_L3]
    /\ array_mb = 0
    /\ array_size \in StatSizes
    /\ heap = [a |-> "allocated", b |-> "allocated", c |-> "allocated"]
    /\ touched = TRUE
    /\ k = NTIMES
    /\ j = 0
    /\ ran = NTIMES * NKERNELS
    /\ out = <<>>
    /\ exit_code = -1
    /\ CacheIdle
    /\ KernelIdle
    /\ StatsIdle
    /\ TrialIdle

NextStats ==
    \/ stats_begin
    \/ stats_iter
    \/ stats_row
    \/ stats_peak

SpecStats == InitStats /\ [][NextStats]_vars

\* ------------------------------------------------------------------------
\* Properties of the statistics reduction (specification SpecStats)
\* ------------------------------------------------------------------------

\* The row of kernel j - 1 has just been computed.
RowDone == pc = "report" /\ j > 0

Row == [avgtime |-> avgtime, mintime |-> mintime, maxtime |-> maxtime,
        best_bw |-> best_bw, avg_bw |-> avg_bw]

\* C2: the reported min, max and average time and both bandwidths do not
\* depend on sample 0: with the warm-up sample replaced by any value, an
\* arbitrarily slow one included, the reduction gives the row it gave.
C2_WarmupExcluded ==
    RowDone =>
        \A v \in TimeVals \cup {SlowSample} :
            reduction(j - 1, array_size, [times EXCEPT ![0] = v]) = Row

\* C2's case: a row reduced from trials whose warm-up sample is the slow
\* one, slower than the reported maximum.
C2_Witness ==
    /\ RowDone
    /\ times[0] = SlowSample
    /\ maxtime < times[0]
    /\ mintime < maxtime

Timed == 1..(NTIMES - 1)

RECURSIVE SumTimed(_, _)
\* row[1] + ... + row[n]
SumTimed(row, n) == IF n = 0 THEN 0 ELSE SumTimed(row, n - 1) + row[n]

\* C8: best bandwidth is total_bytes / min_time, average bandwidth is
\* total_bytes / avg_time, min_time the least and avg_time the mean of the
\* elapsed times of trials 1..NTIMES-1, total_bytes (reads + writes) x 8 x
\* element count of the kernel; so min <= avg <= max and best >= average.
C8_BandwidthFormulas ==
    RowDone =>
        LET name == <<"copy", "scale", "add", "triad", "read", "write", "memcpy">>[j]
            total_bytes == (PatternOf(name)[1] + PatternOf(name)[2]) * 8 * array_size
            total == SumTimed(times, NTIMES - 1)
        IN  /\ \E kk \in Timed : mintime = times[kk]
            /\ \A kk \in Timed : mintime <= times[kk]
            /\ \E kk \in Timed : maxtime = times[kk]
            /\ \A kk \in Timed : maxtime >= times[kk]
            /\ avgtime.num = total /\ avgtime.den = NTIMES - 1
            /\ best_bw.num = total_bytes /\ best_bw.den = mintime
            \* avg_bw = total_bytes / avgtime
            /\ avg_bw.num * avgtime.num = total_bytes * avgtime.den * avg_bw.den
            /\ avg_bw.num > 0
            \* min <= avg <= max
            /\ mintime * avgtime.den <= avgtime.num
            /\ avgtime.num <= maxtime * avgtime.den
            \* best >= avg
            /\ best_bw.num * avg_bw.den >= avg_bw.num * best_bw.den

\* C8's case: a row of the triad kernel whose timed samples differ, so that
\* minimum, mean and maximum are three different values.
C8_Witness ==
    /\ RowDone
    /\ j = 4
    /\ mintime * avgtime.den < avgtime.num
    /\ avgtime.num < maxtime * avgtime.den
    /\ best_bw.num * avg_bw.den > avg_bw.num * best_bw.den

\* ------------------------------------------------------------------------
\* run_benchmark: first-touch initialization and the timed trial loop
\* ------------------------------------------------------------------------
\* The buffers have N elements.  omp_set_num_threads is called once, so
\* every parallel region of the run has the same team.  A reading of the
\* clock is followed as an event: timer tells whether times[j][k] is unset,
\* holds the start time (the kernel is being timed) or holds the elapsed
\* time.

\* The first-touch values of a, b and c.
INIT_A == 1

INIT_B == 2

INIT_C == 0

\* The kernels of one trial, in the order the loop body calls them.
KernelOrder_memcpy_early ==
    <<"copy", "scale", "add", "triad", "read", "memcpy", "write">>

KernelOrder == <<"copy", "scale", "add", "triad", "read", "write", "memcpy">>

\* The initialization loop starts its parallel region: each thread is given
\* its chunk of 0..N-1.
init_fork ==
    /\ pc = "init_call"
    /\ next_i' = [tid \in Threads |-> chunk_start(tid, N, team)]
    /\ pc' = "init_parallel"
    /\ UNCHANGED <<kernel, team, a, b, c, sum, dummy_sum, a0, b0, c0, acc>>
    /\ UNCHANGED <<mainRest, cacheVars, statsVars, trialVars>>

\* One iteration of the initialization loop by one thread:
\* a[i] = 1.0; b[i] = 2.0; c[i] = 0.0, the first access to the three cells.
init_touch ==
    \E tid \in Threads :
        /\ pc = "init_parallel"
        /\ next_i[tid] < chunk_end(tid, N, team)
        /\ LET i == next_i[tid] IN
             /\ a' = [a EXCEPT ![i] = INIT_A]
             /\ b' = [b EXCEPT ![i] = INIT_B]
             /\ c' = [c EXCEPT ![i] = INIT_C]
             /\ owner' = [owner EXCEPT ![i] = tid]
        /\ next_i' = [next_i EXCEPT ![tid] = @ + 1]
        /\ UNCHANGED <<pc, kernel, team, sum, dummy_sum, a0, b0, c0, acc, timer>>
        /\ UNCHANGED <<mainRest, cacheVars, statsVars>>

\* The end of the initialization region: every thread has finished its
\* chunk.  The loop over the trials is entered with k = 0.
init_join ==
    /\ pc = "init_parallel"
    /\ \A tid \in Threads : next_i[tid] = chunk_end(tid, N, team)
    /\ touched' = TRUE
    /\ k' = 0
    /\ j' = 0
    /\ pc' = "timed"
    /\ UNCHANGED <<argv, num_threads, cache, array_mb, array_size, heap, ran,
                   out, exit_code>>
    /\ UNCHANGED <<cacheVars, kernelVars, statsVars, trialVars>>

\* times[j][k] = get_time_sec(); and the call of kernel j.
trial_start ==
    /\ pc = "timed"
    /\ k < NTIMES
    /\ timer' = "running"
    /\ kernel' = KernelOrder[j + 1]
    /\ a0' = a
    /\ b0' = b
    /\ c0' = c
    /\ acc' = {}
    /\ pc' = "call"
    /\ UNCHANGED <<team, a, b, c, next_i, sum, dummy_sum, owner>>
    /\ UNCHANGED <<mainRest, cacheVars, statsVars>>

\* times[j][k] = get_time_sec() - times[j][k]; after the kernel returned,
\* and on to the next kernel or the next trial.
trial_stop ==
    /\ pc = "returned"
    /\ timer' = "stopped"
    /\ ran' = ran + 1
    /\ IF j + 1 < NKERNELS
       THEN /\ j' = j + 1
            /\ k' = k
       ELSE /\ j' = 0
            /\ k' = k + 1
    /\ pc' = "timed"
    /\ UNCHANGED <<argv, num_threads, cache, array_mb, array_size, heap,
                   touched, out, exit_code, owner>>
    /\ UNCHANGED <<cacheVars, kernelVars, statsVars>>

\* The loop is over (the table printed in between reads the times only):
\* if (dummy_sum < 0) printf("%f", dummy_sum);
trial_sentinel ==
    /\ pc = "timed"
    /\ k = NTIMES
    /\ out' = IF dummy_sum < 0 THEN Append(out, "dummy_sum") ELSE out
    /\ pc' = "free"
    /\ UNCHANGED <<argv, num_threads, cache, array_mb, array_size, heap,
                   touched, k, j, ran, exit_code>>
    /\ UNCHANGED <<cacheVars, kernelVars, statsVars, trialVars>>

\* run_benchmark has allocated the buffers, whose contents are whatever the
\* allocation left there, and set the number of threads.
InitTrial ==
    /\ pc = "init_call"
    /\ argv = <<>>
    /\ num_threads \in 1..MaxTeam
    /\ cache = [l3_size |-> DEFAULT_L3]
    /\ array_mb = 0
    /\ array_size = 0
    /\ heap = [a |-> "allocated", b |-> "allocated", c |-> "allocated"]
    /\ touched = FALSE
    /\ k = 0
    /\ j = 0
    /\ ran = 0
    /\ out = <<>>
    /\ exit_code = -1
    /\ CacheIdle
    /\ StatsIdle
    /\ kernel = "none"
    /\ team = num_threads
    /\ a \in Buffers
    /\ b \in Buffers
    /\ c \in Buffers
    /\ next_i = <<>>
    /\ sum = <<>>
    /\ dummy_sum = 0
    /\ a0 = a
    /\ b0 = b
    /\ c0 = c
    /\ acc = {}
    /\ owner = [i \in 0..(N - 1) |-> -1]
    /\ timer = "idle"

NextTrial ==
    \/ init_fork
    \/ init_touch
    \/ init_join
    \/ trial_start
    \/ kernel_fork
    \/ kernel_copy
    \/ kernel_scale
    \/ kernel_add
    \/ kernel_triad
    \/ kernel_read
    \/ kernel_write
    \/ kernel_join
    \/ kernel_memcpy
    \/ trial_stop
    \/ trial_sentinel

SpecTrial == InitTrial /\ [][NextTrial]_vars

\* ------------------------------------------------------------------------
\* Properties of the trial loop (specification SpecTrial)
\* ------------------------------------------------------------------------

\* The thread whose static chunk holds index i.
ChunkOwner(i) ==
    CHOOSE tid \in Threads :
        chunk_start(tid, N, team) <= i /\ i < chunk_end(tid, N, team)

\* Every thread of the region has run its whole chunk.
AllChunksDone == \A tid \in Threads : next_i[tid] = chunk_end(tid, N, team)

\* Some thread has executed an iteration of the invocation under way.
SomeIteration ==
    \/ acc # {}
    \/ /\ pc = "parallel"
       /\ \E tid \in Threads : next_i[tid] > chunk_start(tid, N, team)

\* The first-touch initialization is over.
InitOver == pc \notin {"init_call", "init_parallel"}

\* C11: in every trial, the threads of a timed kernel work only between the
\* two readings of the clock: when the start time is taken no thread has
\* started the invocation, and when the kernel has returned and the end time
\* is taken every thread has finished its whole chunk and every index has
\* been processed; the first-touch initialization has set a = 1.0, b = 2.0,
\* c = 0.0 at every index, each by the thread of the static chunk that
\* holds it, before the first timed invocation.
C11_TimedBetweenStamps ==
    \* a kernel runs only while its timer runs
    /\ pc \in {"call", "parallel", "returned"} => timer = "running"
    /\ timer = "running" => pc \in {"call", "parallel", "returned"}
    \* the start time is taken before any thread starts
    /\ pc = "call" => (acc = {} /\ a = a0 /\ b = b0 /\ c = c0)
    /\ (InitOver /\ SomeIteration) => timer # "idle"
    \* the end time is taken after every thread has finished
    /\ (pc = "returned" \/ timer = "stopped") =>
          /\ \A i \in Indices : Workers(i) # {}
          /\ kernel \in ParallelKernels => AllChunksDone
    \* initialization is complete before the first timed invocation
    /\ InitOver =>
          /\ touched
          /\ \A i \in Indices : owner[i] = ChunkOwner(i)
    /\ ~InitOver => (timer = "idle" /\ ran = 0 /\ acc = {})
    /\ (pc = "call" /\ ran = 0) =>
          \A i \in Indices : a[i] = INIT_A /\ b[i] = INIT_B /\ c[i] = INIT_C
    \* the kernels use the partition of the initialization
    /\ (InitOver /\ kernel \in ParallelKernels) =>
          \A x \in acc : x.t = owner[x.i]

\* C11's case: the end time of a triad of a later trial has been taken, the
\* team had several threads and each of them processed indices it first
\* touched.
C11_Witness ==
    /\ timer = "stopped"
    /\ pc = "timed"
    /\ kernel = "triad"
    /\ k >= 1
    /\ team = MaxTeam
    /\ AllChunksDone
    /\ \A tid \in Threads : \E x \in acc : x.t = tid /\ owner[x.i] = tid

\* Buffer buf holds v at every index.
AllAt(buf, v) == \A i \in Indices : buf[i] = v

\* A whole trial has just been completed (trial k - 1).
TrialEnd == pc = "timed" /\ j = 0 /\ k >= 1

\* C12: every trial, the warm-up included, ends with a[i] = 1, b[i] = 3 and
\* c[i] = 1 at every index and with dummy_sum = 15 x the element count;
\* every kernel reads the same values in every trial (copy reads a = 1,
\* scale c = 1, add a = 1 and b = 3, triad b = 3 and c = 4, read a = 15,
\* memcpy a = 1), so no buffer value grows from trial to trial; dummy_sum is
\* never negative and the sentinel never prints.
C12_TrialFixedPoint ==
    /\ TrialEnd =>
          /\ AllAt(a, 1)
          /\ AllAt(b, 3)
          /\ AllAt(c, 1)
          /\ dummy_sum = 15 * N
    /\ pc = "call" =>
          /\ kernel = "copy" => AllAt(a, 1)
          /\ kernel = "scale" => AllAt(c, 1)
          /\ kernel = "add" => (AllAt(a, 1) /\ AllAt(b, 3))
          /\ kernel = "triad" => (AllAt(b, 3) /\ AllAt(c, 4))
          /\ kernel = "read" => AllAt(a, 15)
          /\ kernel = "memcpy" => AllAt(a, 1)
    /\ InitOver =>
          \A i \in Indices : a[i] <= 15 /\ b[i] <= 3 /\ c[i] <= 4
    /\ dummy_sum \in {0, 15 * N}
    /\ dummy_sum >= 0
    /\ ~Printed("dummy_sum")

\* C12's case: all the trials have run on a team of several threads and the
\* sentinel test has been evaluated on the sum the last read left.
C12_Witness ==
    /\ pc = "free"
    /\ touched
    /\ ran = NTIMES * NKERNELS
    /\ team = MaxTeam
    /\ dummy_sum = 15 * N
    /\ AllAt(a, 1) /\ AllAt(b, 3) /\ AllAt(c, 1)

====
